---------------------------- MODULE Spec2Model ----------------------------
(***************************************************************************)
(* The keyword collector of src/modules/keyword_collector.py: the three    *)
(* field fillers, click_continue_button, the completion waiter, the table  *)
(* extractor and the orchestrator collect_keywords, with the form-data     *)
(* derivation of src/modules/llm_agent.py.                                 *)
(*                                                                         *)
(* A text (a Python str) is a sequence of atoms; an atom is a TLA+ string  *)
(* standing for one run of characters that the code never splits: a word,  *)
(* a phrase, or one blank " ".  The empty str is <<>>.                     *)
(***************************************************************************)
EXTENDS Integers, Sequences, FiniteSets, TLC

(***************************************************************************)
(* Bounds of the model.                                                    *)
(***************************************************************************)
\* the longest page drawn for the extractor: rows plus table breaks
MaxPageLen == 3
\* the time one evaluation of the loading indicators may take, in seconds
MaxPollCost == 1
\* the page operations that may raise while the overlays are dismissed
MaxOverlayRaises == 1
\* the keys a config drawn for extract_form_data may hold
MaxConfigKeys == 2
\* at most this many patterns raise on one tick of the poll loop
MaxIndicatorRaises == 2

(***************************************************************************)
(* Texts.                                                                  *)
(***************************************************************************)
\* the atoms that stand for one character; "endash" and "emdash" stand for
\* the characters U+2013 and U+2014 of the extractor's placeholder list
OneCharAtoms == {" ", "-", "endash", "emdash", "k"}

\* the number of characters of an atom
AtomLen(a) ==
    CASE a \in OneCharAtoms -> 1
      [] a = "N/A" -> 3
      [] a = "1000" -> 4
      [] a \in {"Query", "query", "shoes"} -> 5
      [] a \in {"Phrase", "phrase"} -> 6
      [] a \in {"Keyword", "KEYWORD", "keyword"} -> 7
      [] a \in {"Search Term", "search term", "trail shoes"} -> 11
      [] a \in {"Keyword Ideas", "keyword ideas", "running shoes"} -> 13
      [] a \in {"Monthly Volume", "monthly volume"} -> 14
      [] OTHER -> 2

\* str.lower() on one atom
AtomLower(a) ==
    CASE a = "Keyword" -> "keyword"
      [] a = "KEYWORD" -> "keyword"
      [] a = "Phrase" -> "phrase"
      [] a = "Search Term" -> "search term"
      [] a = "Query" -> "query"
      [] a = "Keyword Ideas" -> "keyword ideas"
      [] a = "Monthly Volume" -> "monthly volume"
      [] OTHER -> a

\* needle in atom, for the lower-case needles the extractor looks for
AtomContains(a, needle) ==
    \/ a = needle
    \/ needle = "keyword" /\ a = "keyword ideas"

RECURSIVE TextLen(_)
\* len(text)
TextLen(t) == IF t = <<>> THEN 0 ELSE AtomLen(Head(t)) + TextLen(Tail(t))

\* text.lower()
Lower(t) == [i \in 1..Len(t) |-> AtomLower(t[i])]

\* needle in text
Contains(t, needle) == \E i \in 1..Len(t) : AtomContains(t[i], needle)

RECURSIVE LStrip(_)
LStrip(t) == IF t # <<>> /\ Head(t) = " " THEN LStrip(Tail(t)) ELSE t

RECURSIVE RStrip(_)
RStrip(t) ==
    IF t # <<>> /\ t[Len(t)] = " " THEN RStrip(SubSeq(t, 1, Len(t) - 1)) ELSE t

\* text.strip()
Strip(t) == RStrip(LStrip(t))

\* bool(text): a non-empty str is truthy
Truthy(t) == t # <<>>


\* the one-atom text of a Python literal
T(a) == <<a>>

(***************************************************************************)
(* State.                                                                  *)
(***************************************************************************)
VARIABLES
    pc,          \* collect_keywords: the statement it is at
    config,      \* collect_keywords: its config argument, key -> value
    form_data,   \* collect_keywords: the dict extract_form_data returned
    results,     \* collect_keywords: success, industry_success,
                 \*   location_success, continue_success
    browser,     \* "none", "open" or "closed"
    exc,         \* the exception in flight, or NoExc
    outcome,     \* "running", "returned" or "raised"
    csv,         \* the output file: "absent", or its rows
    phases,      \* the steps collect_keywords has begun, in order
    elapsed,     \* the waiter: current_time - start_time, in ms
    page,        \* the tables of the results page, in document order
    keywords,    \* the list extract_keywords_from_table returned
    llm,         \* the LLM client: what its completion call does
    fn,          \* the helper being called, or "none"
    fpc,         \* the helper: the statement it is at
    arg,         \* the helper: its value argument
    vis,         \* the page: the control candidates visible within timeout
    optVis,      \* the page: the option candidates visible within timeout
    idx,         \* the helper: the index of its candidate loop
    elem,        \* the helper: the element resolved (its candidate), 0 = None
    ret,         \* the helper: its return value, "none" before it returns
    trace        \* the page operations of the helper or step in progress

orchVars == <<pc, config, form_data, results, browser, exc, outcome, csv,
              phases, elapsed>>
pageVars == <<page, keywords, llm>>
helperVars == <<fn, fpc, arg, vis, optVis, idx, elem, ret, trace>>
vars == <<orchVars, pageVars, helperVars>>

(***************************************************************************)
(* extract_keywords_from_table.                                            *)
(***************************************************************************)
\* the header lexicon of the row classifier
HeaderLexicon == {"keyword", "search term", "phrase", "query"}

\* the cell texts that count as empty
Placeholders == {T("-"), T("endash"), T("emdash"), T("N/A")}

\* the keywords that are never emitted
HeaderTokens == {T("keyword"), T("search term"), T("phrase")}

\* cell_texts = [cell.inner_text().strip() for cell in cells]
CellTexts(row) == [i \in 1..Len(row) |-> Strip(row[i])]

\* any(header in cell_texts[0].lower() for header in [...])
IsHeaderRow(cell_texts) ==
    \E header \in HeaderLexicon : Contains(Lower(cell_texts[1]), header)

\* not any(cell_text.strip() and cell_text.strip() not in [...])
IsEmptyRow(cell_texts) ==
    ~ \E i \in 1..Len(cell_texts) :
        /\ Truthy(Strip(cell_texts[i]))
        /\ Strip(cell_texts[i]) \notin Placeholders

\* a mutant of KeywordData: an empty cell is given "N/A" like an absent one
KeywordDataFillsEmpty(cell_texts) ==
    LET cell(i) == IF Len(cell_texts) >= i /\ Truthy(cell_texts[i])
                   THEN cell_texts[i] ELSE T("N/A") IN
    [keyword |-> IF Len(cell_texts) > 0 THEN cell_texts[1] ELSE <<>>,
     monthly_volume |-> cell(2), cpc |-> cell(3), competition |-> cell(4)]

\* the keyword_data dict of a row
KeywordData(cell_texts) ==
    [keyword |-> IF Len(cell_texts) > 0 THEN cell_texts[1] ELSE <<>>,
     monthly_volume |-> IF Len(cell_texts) > 1 THEN cell_texts[2] ELSE T("N/A"),
     cpc |-> IF Len(cell_texts) > 2 THEN cell_texts[3] ELSE T("N/A"),
     competition |-> IF Len(cell_texts) > 3 THEN cell_texts[4] ELSE T("N/A")]

\* a mutant of Meaningful: the length test is dropped
MeaningfulNoLength(keyword_data) ==
    /\ Truthy(keyword_data.keyword)
    /\ Lower(keyword_data.keyword) \notin HeaderTokens

\* "only add if we have a meaningful keyword"
Meaningful(keyword_data) ==
    /\ Truthy(keyword_data.keyword)
    /\ TextLen(keyword_data.keyword) > 1
    /\ Lower(keyword_data.keyword) \notin HeaderTokens

\* one pass of the row loop; st = [header_found, keywords]
ProcessRow(st, row) ==
    LET cell_texts == CellTexts(row) IN
    IF Len(row) = 0 THEN st
    ELSE IF IsHeaderRow(cell_texts) THEN [st EXCEPT !.header_found = TRUE]
    ELSE IF IsEmptyRow(cell_texts) THEN st
    ELSE IF st.header_found /\ Len(cell_texts) >= 2
              /\ Meaningful(KeywordData(cell_texts))
         THEN [st EXCEPT !.keywords = Append(@, KeywordData(cell_texts))]
    ELSE st

RECURSIVE ProcessRows(_, _)
\* for row_idx, row in enumerate(rows)
ProcessRows(st, rows) ==
    IF rows = <<>> THEN st ELSE ProcessRows(ProcessRow(st, Head(rows)), Tail(rows))

RECURSIVE AllRows(_)
\* the rows of all the tables, in document order
AllRows(tables) ==
    IF tables = <<>> THEN <<>> ELSE Head(tables) \o AllRows(Tail(tables))

\* a mutant of ProcessTables: header_found is not reset for a new table
ProcessTablesSharedHeader(kws, tables) ==
    ProcessRows([header_found |-> FALSE, keywords |-> kws], AllRows(tables)).keywords

RECURSIVE ProcessTables(_, _)
\* for table_idx, table in enumerate(tables): header_found starts False
ProcessTables(kws, tables) ==
    IF tables = <<>> THEN kws
    ELSE ProcessTables(
             ProcessRows([header_found |-> FALSE, keywords |-> kws],
                         Head(tables)).keywords,
             Tail(tables))

\* where a page operation of the extractor may raise: <<0, 0>> is the query
\* for the tables, <<t, 0>> the query for the rows of table t, and <<t, r>>
\* the reading of the cells of row r of table t
FailurePoints(tables) ==
    {<<0, 0>>}
        \cup UNION {{<<t, r>> : r \in 0..Len(tables[t])} : t \in 1..Len(tables)}

\* no page operation of the extractor raises
NoFailure(tables) == <<Len(tables) + 1, 0>>

\* the tables and rows the loops have gone through when the operation at
\* `f` raises
TablesRead(tables, f) ==
    IF f[1] = 0 THEN <<>>
    ELSE IF f[1] > Len(tables) THEN tables
    ELSE Append(SubSeq(tables, 1, f[1] - 1), SubSeq(tables[f[1]], 1, f[2] - 1))

\* a mutant of extract_keywords_from_table: the list outlives the call
extract_keywords_accumulating(tables) == ProcessTables(keywords, tables)

\* extract_keywords_from_table(page), no page operation failing
extract_keywords_from_table(tables) == ProcessTables(<<>>, tables)

\* extract_keywords_from_table(page) when the operation at `f` raises: the
\* except clause of lines 562-563 swallows the exception and line 565
\* returns the list as it stands
extract_keywords_interrupted(tables, f) == ProcessTables(<<>>, TablesRead(tables, f))

(***************************************************************************)
(* The helpers: the page operations they share.                            *)
(*                                                                         *)
(* page.wait_for_selector(selector, state="visible") returns the element   *)
(* when it is visible within the timeout and raises TimeoutError when it   *)
(* is not; every other page operation either succeeds or raises.           *)
(***************************************************************************)
\* one page operation: what was called, on what, whether it succeeded, and
\* for is_visible and is_enabled what it reported ("raise" when it raised)
Op(o, on, ok) == [op |-> o, on |-> on, ok |-> ok, val |-> "none"]

\* the report `v` of the state query `o` of the element `on`
Query(o, on, v) == [Op(o, on, v # "raise") EXCEPT !.val = v]

\* the exception-free value of `exc`
NoExc == [site |-> "none", msg |-> "none", context |-> "none"]

\* return v
Return(v) == fpc' = "done" /\ ret' = v

\* a mutant of ResolveStep: the loop has no break, the last visible wins
ResolveStepNoBreak(selectors) ==
    /\ trace' = Append(trace, Op("wait_for_selector", selectors[idx], idx \in vis))
    /\ elem' = IF idx \in vis THEN idx ELSE elem
    /\ IF idx < Len(selectors)
       THEN idx' = idx + 1 /\ fpc' = "resolve"
       ELSE idx' = idx /\ fpc' = "resolved"

\* one pass of "for selector in <field>_selectors": wait for the candidate;
\* a visible one is kept and ends the loop, a timeout goes on to the next
ResolveStep(selectors) ==
    /\ trace' = Append(trace, Op("wait_for_selector", selectors[idx], idx \in vis))
    /\ IF idx \in vis
       THEN elem' = idx /\ idx' = idx /\ fpc' = "resolved"
       ELSE /\ elem' = elem
            /\ IF idx < Len(selectors)
               THEN idx' = idx + 1 /\ fpc' = "resolve"
               ELSE idx' = idx /\ fpc' = "resolved"

\* "if not <field>_input: return False", else on to the interaction
FoundStep ==
    /\ vis' = {}
    /\ IF elem = 0
       THEN Return("False") /\ idx' = idx
       ELSE fpc' = "interact" /\ idx' = 1 /\ ret' = ret

\* the next statement of a straight run of page operations `ops` inside the
\* outer try: a raise returns False; the last one done goes to `after`,
\* with `retAfter` returned when `after` is the function's end
InteractStep(ops, ok, after, retAfter) ==
    /\ trace' = Append(trace, [ops[idx] EXCEPT !.ok = ok])
    /\ IF ~ ok THEN Return("False") /\ idx' = idx
       ELSE IF idx < Len(ops) THEN idx' = idx + 1 /\ fpc' = fpc /\ ret' = ret
       ELSE idx' = 1 /\ fpc' = after /\ ret' = retAfter

\* `continue` in the option loop: the next candidate, or the loop's end
NextOption(selectors) ==
    IF idx < Len(selectors)
    THEN idx' = idx + 1 /\ fpc' = "options"
    ELSE idx' = 1 /\ fpc' = "no_option"

\* the option loop: wait for the candidate
OptionWait(selectors) ==
    /\ trace' = Append(trace, Op("wait_for_selector", selectors[idx], idx \in optVis))
    /\ IF idx \in optVis THEN idx' = idx /\ fpc' = "opt_click"
       ELSE NextOption(selectors)

\* the option loop: click the option found; a raise is swallowed by the
\* loop's bare except and the loop goes on
OptionClick(selectors, ok) ==
    /\ trace' = Append(trace, Op("click", selectors[idx], ok))
    /\ IF ok THEN idx' = idx /\ fpc' = "opt_pause" ELSE NextOption(selectors)

\* the option loop: the pause after the click, then break and return True
OptionPause(selectors, ok) ==
    /\ trace' = Append(trace, Op("wait_for_timeout", "1000", ok))
    /\ IF ok THEN Return("True") /\ idx' = idx
       ELSE NextOption(selectors) /\ ret' = ret

(***************************************************************************)
(* fill_website_field.                                                     *)
(***************************************************************************)
website_selectors ==
    <<"input[name=websiteURLOrKeyword]", "input[data-testid=websiteURLOrKeyword]",
      ".MuiInputBase-input", "input[type=text]">>

\* click, pause, select, type, pause
FwfOps ==
    <<Op("click", "website_input", TRUE), Op("wait_for_timeout", "500", TRUE),
      Op("select_text", "website_input", TRUE), Op("type", "website_input", TRUE),
      Op("wait_for_timeout", "1000", TRUE)>>

FwfEntry ==
    /\ fn = "fill_website_field" /\ fpc = "entry"
    /\ fpc' = "resolve" /\ idx' = 1
    /\ UNCHANGED <<orchVars, pageVars, fn, arg, vis, optVis, elem, ret, trace>>

FwfResolve ==
    /\ fn = "fill_website_field" /\ fpc = "resolve"
    /\ ResolveStep(website_selectors)
    /\ UNCHANGED <<orchVars, pageVars, fn, arg, vis, optVis, ret>>

FwfFound ==
    /\ fn = "fill_website_field" /\ fpc = "resolved"
    /\ FoundStep
    /\ UNCHANGED <<orchVars, pageVars, fn, arg, optVis, elem, trace>>

FwfInteract ==
    /\ fn = "fill_website_field" /\ fpc = "interact"
    /\ \E ok \in BOOLEAN : InteractStep(FwfOps, ok, "done", "True")
    /\ UNCHANGED <<orchVars, pageVars, fn, arg, vis, optVis, elem>>

(***************************************************************************)
(* fill_industry_dropdown.                                                 *)
(***************************************************************************)
industry_selectors ==
    <<"[aria-label=industry]", "div[role=combobox] .MuiSelect-select",
      ".MuiSelect-select", ".sc-jYGMYt.sc-igAlAF.eZHANI.kHFAsD.MuiSelect-select">>

\* every menu candidate is parameterized by industry_value
menu_selectors ==
    <<"li[role=option]:has-text(value)", ".MuiMenuItem-root:has-text(value)",
      "[role=option]:has-text(value)", "li:has-text(value)">>

\* click to open, pause
FidOps == <<Op("click", "industry_dropdown", TRUE), Op("wait_for_timeout", "2000", TRUE)>>

\* a mutant of FidEntry: the default value is not skipped
FidEntryNoSkip ==
    /\ fn = "fill_industry_dropdown" /\ fpc = "entry"
    /\ IF ~ Truthy(arg)
       THEN Return("True") /\ idx' = idx
       ELSE fpc' = "resolve" /\ idx' = 1 /\ ret' = ret
    /\ UNCHANGED <<orchVars, pageVars, fn, arg, vis, optVis, elem, trace>>

FidEntry ==
    /\ fn = "fill_industry_dropdown" /\ fpc = "entry"
    /\ IF ~ Truthy(arg) \/ arg = T("All Industries")
       THEN Return("True") /\ idx' = idx
       ELSE fpc' = "resolve" /\ idx' = 1 /\ ret' = ret
    /\ UNCHANGED <<orchVars, pageVars, fn, arg, vis, optVis, elem, trace>>

FidResolve ==
    /\ fn = "fill_industry_dropdown" /\ fpc = "resolve"
    /\ ResolveStep(industry_selectors)
    /\ UNCHANGED <<orchVars, pageVars, fn, arg, vis, optVis, ret>>

FidFound ==
    /\ fn = "fill_industry_dropdown" /\ fpc = "resolved"
    /\ FoundStep
    /\ UNCHANGED <<orchVars, pageVars, fn, arg, optVis, elem, trace>>

\* the click that opens the menu and the pause; the page then shows the
\* menu items of optVis
FidOpen ==
    /\ fn = "fill_industry_dropdown" /\ fpc = "interact"
    /\ \E ok \in BOOLEAN : InteractStep(FidOps, ok, "options", "none")
    /\ IF fpc' = "options"
       THEN optVis' \in SUBSET (1..Len(menu_selectors))
       ELSE optVis' = optVis
    /\ UNCHANGED <<orchVars, pageVars, fn, arg, vis, elem>>

FidMenuWait ==
    /\ fn = "fill_industry_dropdown" /\ fpc = "options"
    /\ OptionWait(menu_selectors)
    /\ UNCHANGED <<orchVars, pageVars, fn, arg, vis, optVis, elem, ret>>

FidMenuClick ==
    /\ fn = "fill_industry_dropdown" /\ fpc = "opt_click"
    /\ \E ok \in BOOLEAN : OptionClick(menu_selectors, ok)
    /\ UNCHANGED <<orchVars, pageVars, fn, arg, vis, optVis, elem, ret>>

FidMenuPause ==
    /\ fn = "fill_industry_dropdown" /\ fpc = "opt_pause"
    /\ \E ok \in BOOLEAN : OptionPause(menu_selectors, ok)
    /\ UNCHANGED <<orchVars, pageVars, fn, arg, vis, optVis, elem>>

\* "if not option_found": press Escape and return False; a raise of the
\* press goes to the inner handler
FidNoOption ==
    /\ fn = "fill_industry_dropdown" /\ fpc = "no_option"
    /\ \E ok \in BOOLEAN :
         /\ trace' = Append(trace, Op("press", "Escape", ok))
         /\ IF ok THEN Return("False") ELSE fpc' = "handler" /\ ret' = ret
    /\ UNCHANGED <<orchVars, pageVars, fn, arg, vis, optVis, idx, elem>>

\* a mutant of FidHandler: no outer handler, a raise of the inner handler's
\* press leaves the function
FidHandlerRaises ==
    /\ fn = "fill_industry_dropdown" /\ fpc = "handler"
    /\ \E ok \in BOOLEAN :
         /\ trace' = Append(trace, Op("press", "Escape", ok))
         /\ Return(IF ok THEN "False" ELSE "raised")
    /\ UNCHANGED <<orchVars, pageVars, fn, arg, vis, optVis, idx, elem>>

\* the inner handler: press Escape and return False; a raise of this press
\* goes to the outer handler, which returns False
FidHandler ==
    /\ fn = "fill_industry_dropdown" /\ fpc = "handler"
    /\ \E ok \in BOOLEAN : trace' = Append(trace, Op("press", "Escape", ok))
    /\ Return("False")
    /\ UNCHANGED <<orchVars, pageVars, fn, arg, vis, optVis, idx, elem>>

(***************************************************************************)
(* fill_location_autocomplete.                                             *)
(***************************************************************************)
location_selectors ==
    <<"[aria-label=location] input", "input[aria-autocomplete=list]",
      ".MuiAutocomplete-input", "input[role=combobox]",
      "input[type=text][autocomplete=off]">>

\* candidates 1, 3 and 5 are parameterized by location_value
autocomplete_selectors ==
    <<"[role=option]:has-text(value)", "[role=option]",
      ".MuiAutocomplete-option:has-text(value)", ".MuiAutocomplete-option",
      "li[role=option]:has-text(value)", "li[role=option]">>

\* click, pause, select, Delete, pause, type, pause
FlaOps ==
    <<Op("click", "location_input", TRUE), Op("wait_for_timeout", "500", TRUE),
      Op("select_text", "location_input", TRUE), Op("press", "Delete", TRUE),
      Op("wait_for_timeout", "500", TRUE), Op("type", "location_input", TRUE),
      Op("wait_for_timeout", "2000", TRUE)>>

\* "keeping typed value": press Tab, pause
FlaConfirmOps == <<Op("press", "Tab", TRUE), Op("wait_for_timeout", "500", TRUE)>>

\* a mutant of FlaEntry: an empty value is not skipped
FlaEntryNoSkip ==
    /\ fn = "fill_location_autocomplete" /\ fpc = "entry"
    /\ fpc' = "resolve" /\ idx' = 1
    /\ UNCHANGED <<orchVars, pageVars, fn, arg, vis, optVis, elem, ret, trace>>

FlaEntry ==
    /\ fn = "fill_location_autocomplete" /\ fpc = "entry"
    /\ IF ~ Truthy(arg)
       THEN Return("True") /\ idx' = idx
       ELSE fpc' = "resolve" /\ idx' = 1 /\ ret' = ret
    /\ UNCHANGED <<orchVars, pageVars, fn, arg, vis, optVis, elem, trace>>

FlaResolve ==
    /\ fn = "fill_location_autocomplete" /\ fpc = "resolve"
    /\ ResolveStep(location_selectors)
    /\ UNCHANGED <<orchVars, pageVars, fn, arg, vis, optVis, ret>>

FlaFound ==
    /\ fn = "fill_location_autocomplete" /\ fpc = "resolved"
    /\ FoundStep
    /\ UNCHANGED <<orchVars, pageVars, fn, arg, optVis, elem, trace>>

\* focus, clear and type; the page then shows the suggestions of optVis
FlaInteract ==
    /\ fn = "fill_location_autocomplete" /\ fpc = "interact"
    /\ \E ok \in BOOLEAN : InteractStep(FlaOps, ok, "options", "none")
    /\ IF fpc' = "options"
       THEN optVis' \in SUBSET (1..Len(autocomplete_selectors))
       ELSE optVis' = optVis
    /\ UNCHANGED <<orchVars, pageVars, fn, arg, vis, elem>>

FlaOptWait ==
    /\ fn = "fill_location_autocomplete" /\ fpc = "options"
    /\ OptionWait(autocomplete_selectors)
    /\ UNCHANGED <<orchVars, pageVars, fn, arg, vis, optVis, elem, ret>>

FlaOptClick ==
    /\ fn = "fill_location_autocomplete" /\ fpc = "opt_click"
    /\ \E ok \in BOOLEAN : OptionClick(autocomplete_selectors, ok)
    /\ UNCHANGED <<orchVars, pageVars, fn, arg, vis, optVis, elem, ret>>

FlaOptPause ==
    /\ fn = "fill_location_autocomplete" /\ fpc = "opt_pause"
    /\ \E ok \in BOOLEAN : OptionPause(autocomplete_selectors, ok)
    /\ UNCHANGED <<orchVars, pageVars, fn, arg, vis, optVis, elem>>

\* a mutant of FlaNoOption: no suggestion selected is a failure, as it is
\* for the industry filler
FlaNoOptionFails ==
    /\ fn = "fill_location_autocomplete" /\ fpc = "no_option"
    /\ \E ok \in BOOLEAN :
         /\ trace' = Append(trace, [FlaConfirmOps[idx] EXCEPT !.ok = ok])
         /\ IF ~ ok THEN fpc' = "handler" /\ idx' = idx /\ ret' = ret
            ELSE IF idx < Len(FlaConfirmOps)
                 THEN idx' = idx + 1 /\ fpc' = fpc /\ ret' = ret
            ELSE Return("False") /\ idx' = idx
    /\ UNCHANGED <<orchVars, pageVars, fn, arg, vis, optVis, elem>>

\* "if not option_selected": press Tab, pause, return True; a raise of
\* either goes to the inner handler
FlaNoOption ==
    /\ fn = "fill_location_autocomplete" /\ fpc = "no_option"
    /\ \E ok \in BOOLEAN :
         /\ trace' = Append(trace, [FlaConfirmOps[idx] EXCEPT !.ok = ok])
         /\ IF ~ ok THEN fpc' = "handler" /\ idx' = idx /\ ret' = ret
            ELSE IF idx < Len(FlaConfirmOps)
                 THEN idx' = idx + 1 /\ fpc' = fpc /\ ret' = ret
            ELSE Return("True") /\ idx' = idx
    /\ UNCHANGED <<orchVars, pageVars, fn, arg, vis, optVis, elem>>

\* the inner handler: press Tab and return True; a raise of this press
\* goes to the outer handler, which returns False
FlaHandler ==
    /\ fn = "fill_location_autocomplete" /\ fpc = "handler"
    /\ \E ok \in BOOLEAN :
         /\ trace' = Append(trace, Op("press", "Tab", ok))
         /\ Return(IF ok THEN "True" ELSE "False")
    /\ UNCHANGED <<orchVars, pageVars, fn, arg, vis, optVis, idx, elem>>

(***************************************************************************)
(* click_continue_button.                                                  *)
(***************************************************************************)
continue_selectors == <<"button[data-testid=buttonContinue]", "button:has-text(Continue)">>

\* click, pause
CcbOps == <<Op("click", "continue_button", TRUE), Op("wait_for_timeout", "2000", TRUE)>>

\* wait for the data-testid candidate; its timeout raises into the outer
\* handler, which returns False.  wait_for_selector never returns None for
\* the visible state, so the text candidate is not waited for
CcbWait ==
    /\ fn = "click_continue_button" /\ fpc = "entry"
    /\ trace' = Append(trace, Op("wait_for_selector", continue_selectors[1], 1 \in vis))
    /\ IF 1 \in vis
       THEN elem' = 1 /\ fpc' = "check" /\ ret' = ret
       ELSE elem' = elem /\ Return("False")
    /\ UNCHANGED <<orchVars, pageVars, fn, arg, vis, optVis, idx>>

\* a mutant of CcbCheck: is_enabled is asked and its report ignored
CcbCheckVisibleOnly ==
    /\ fn = "click_continue_button" /\ fpc = "check"
    /\ \E visible \in {"True", "False", "raise"}, enabled \in {"True", "False", "raise"} :
         /\ trace' = IF visible = "True"
                     THEN trace \o <<Query("is_visible", "continue_button", visible),
                                     Query("is_enabled", "continue_button", enabled)>>
                     ELSE Append(trace, Query("is_visible", "continue_button", visible))
         /\ IF visible = "True" /\ enabled # "raise"
            THEN fpc' = "interact" /\ idx' = 1 /\ ret' = ret
            ELSE Return("False") /\ idx' = idx
    /\ UNCHANGED <<orchVars, pageVars, fn, arg, vis, optVis, elem>>

\* "if not continue_button.is_visible() or not continue_button.is_enabled()":
\* is_enabled is asked only when is_visible reported True
CcbCheck ==
    /\ fn = "click_continue_button" /\ fpc = "check"
    /\ \E visible \in {"True", "False", "raise"}, enabled \in {"True", "False", "raise"} :
         /\ trace' = IF visible = "True"
                     THEN trace \o <<Query("is_visible", "continue_button", visible),
                                     Query("is_enabled", "continue_button", enabled)>>
                     ELSE Append(trace, Query("is_visible", "continue_button", visible))
         /\ IF visible = "True" /\ enabled = "True"
            THEN fpc' = "interact" /\ idx' = 1 /\ ret' = ret
            ELSE Return("False") /\ idx' = idx
    /\ UNCHANGED <<orchVars, pageVars, fn, arg, vis, optVis, elem>>

CcbClick ==
    /\ fn = "click_continue_button" /\ fpc = "interact"
    /\ \E ok \in BOOLEAN : InteractStep(CcbOps, ok, "done", "True")
    /\ UNCHANGED <<orchVars, pageVars, fn, arg, vis, optVis, elem>>

\* the statements of the four helpers
HelperStep ==
    \/ FwfEntry \/ FwfResolve \/ FwfFound \/ FwfInteract
    \/ FidEntry \/ FidResolve \/ FidFound \/ FidOpen
    \/ FidMenuWait \/ FidMenuClick \/ FidMenuPause \/ FidNoOption \/ FidHandler
    \/ FlaEntry \/ FlaResolve \/ FlaFound \/ FlaInteract
    \/ FlaOptWait \/ FlaOptClick \/ FlaOptPause \/ FlaNoOption \/ FlaHandler
    \/ CcbWait \/ CcbCheck \/ CcbClick

(***************************************************************************)
(* The fillers called on their own, with any value and any page.           *)
(***************************************************************************)
\* the values a filler is called with
FillValues == {<<>>, T("All Industries"), T("Technology"), T("Pune")}

\* a call of helper f with value a, on a page whose control candidates
\* `visible` are visible within their timeouts
Call(f, a, visible) ==
    /\ fn' = f /\ fpc' = "entry" /\ arg' = a /\ vis' = visible
    /\ optVis' = {} /\ idx' = 1 /\ elem' = 0 /\ ret' = "none" /\ trace' = <<>>

\* the candidate list of the control of helper f
ControlSelectors(f) ==
    CASE f = "fill_website_field" -> website_selectors
      [] f = "fill_industry_dropdown" -> industry_selectors
      [] f = "fill_location_autocomplete" -> location_selectors
      [] OTHER -> continue_selectors

Helpers ==
    {"fill_website_field", "fill_industry_dropdown", "fill_location_autocomplete",
     "click_continue_button"}

HarnessCall ==
    /\ pc = "harness" /\ fn = "none"
    /\ \E f \in Helpers, a \in FillValues :
         \E visible \in SUBSET (1..Len(ControlSelectors(f))) : Call(f, a, visible)
    /\ UNCHANGED <<orchVars, pageVars>>

(***************************************************************************)
(* llm_agent.py: the form data.                                            *)
(*                                                                         *)
(* A config value is [kind, v]: kind "absent" (no such key, v = <<>>),     *)
(* "str" (v = <<the text>>) or "list" (v = its items, each a text).        *)
(***************************************************************************)
Absent == [kind |-> "absent", v |-> <<>>]
Str(t) == [kind |-> "str", v |-> <<t>>]
List(items) == [kind |-> "list", v |-> items]

industry_keys == <<"Industry", "industry", "INDUSTRY", "business_type", "sector">>
location_keys == <<"locations", "location", "address", "city", "primary_location">>

ConfigKeys ==
    {"brand_website"} \cup {industry_keys[i] : i \in 1..Len(industry_keys)}
                      \cup {location_keys[i] : i \in 1..Len(location_keys)}

valid_industries ==
    {T("Automotive"), T("Beauty & Personal Care"), T("Business Services"),
     T("Education"), T("Finance & Insurance"), T("Health & Medical"),
     T("Home & Garden"), T("Legal Services"), T("Real Estate"),
     T("Retail & E-commerce"), T("Technology"), T("Travel & Hospitality"),
     T("Food & Beverage"), T("Entertainment"), T("Non-profit"),
     T("Construction"), T("Manufacturing"), T("Agriculture"),
     T("Sports & Recreation")}

\* bool(config[key]) for a key that is present
ValTruthy(val) ==
    \/ val.kind = "str" /\ Truthy(val.v[1])
    \/ val.kind = "list" /\ val.v # <<>>

\* str(config[key])
ValStr(val) == IF val.kind = "str" THEN val.v[1] ELSE T("str(list)")

\* no client: a call raises
NoLlm == [raises |-> TRUE, content |-> <<>>]

\* what the LLM call does: it raises, or returns this content
LlmAnswers ==
    {[raises |-> TRUE, content |-> <<>>], [raises |-> FALSE, content |-> <<>>],
     [raises |-> FALSE, content |-> T("Technology")],
     [raises |-> FALSE, content |-> <<" ", "Technology">>],
     [raises |-> FALSE, content |-> T("Tech")]}

\* generate_completion: empty content raises, else content.strip()
generate_completion(answer) ==
    IF answer.raises \/ ~ Truthy(answer.content)
    THEN [raises |-> TRUE, content |-> <<>>]
    ELSE [raises |-> FALSE, content |-> Strip(answer.content)]

\* a mutant of map_industry_to_wordstream: the answer is not validated
map_industry_unvalidated(industry, answer) ==
    LET mapped == generate_completion(answer) IN
    IF ~ Truthy(industry) \/ ~ Truthy(Strip(industry)) THEN T("Business Services")
    ELSE IF mapped.raises THEN T("Business Services")
    ELSE mapped.content

\* an empty or blank industry, a failed call and an answer outside the list
\* all give "Business Services"
map_industry_to_wordstream(industry, answer) ==
    LET mapped == generate_completion(answer) IN
    IF ~ Truthy(industry) \/ ~ Truthy(Strip(industry)) THEN T("Business Services")
    ELSE IF mapped.raises THEN T("Business Services")
    ELSE IF mapped.content \in valid_industries THEN mapped.content
    ELSE T("Business Services")

\* a mutant of FirstKey: the loop has no break, the last usable key wins
LastKey(usable, from) ==
    LET S == {i \in from..Len(usable) : usable[i]} IN
    IF S = {} THEN 0 ELSE CHOOSE i \in S : \A j \in S : j <= i

RECURSIVE FirstKey(_, _)
\* "for key in keys: if <usable>: ...; break": the first index i >= from
\* with usable[i], 0 when the loop ends without a break
FirstKey(usable, from) ==
    IF from > Len(usable) THEN 0
    ELSE IF usable[from] THEN from
    ELSE FirstKey(usable, from + 1)

\* the location loop takes a non-empty list or a str that is not blank
LocationUsable(val) ==
    \/ val.kind = "list" /\ val.v # <<>>
    \/ val.kind = "str" /\ Truthy(val.v[1]) /\ Truthy(Strip(val.v[1]))

extract_form_data(cfg, answer) ==
    LET website == cfg["brand_website"]
        ik == FirstKey([i \in 1..Len(industry_keys) |->
                           ValTruthy(cfg[industry_keys[i]])], 1)
        lk == FirstKey([i \in 1..Len(location_keys) |->
                           LocationUsable(cfg[location_keys[i]])], 1)
    IN  [website |-> IF website.kind = "str" THEN Strip(website.v[1]) ELSE <<>>,
         industry |-> IF ik = 0 THEN T("Business Services")
                      ELSE map_industry_to_wordstream(ValStr(cfg[industry_keys[ik]]), answer),
         location |-> IF lk = 0 THEN <<>> ELSE Strip(cfg[location_keys[lk]].v[1])]

\* a config with the given website, industry and location values
Config(website, industry, location) ==
    [k \in ConfigKeys |->
        CASE k = "brand_website" -> website
          [] k = "industry" -> industry
          [] k = "location" -> location
          [] OTHER -> Absent]

\* the values a key of a config is drawn from: empty, blank, plain and
\* padded texts, and lists that are empty, plain or begin with a blank
FormValues ==
    {Str(<<>>), Str(<<" ">>), Str(T("Pune")), Str(<<" ", "Delhi", " ">>),
     List(<<>>), List(<<T("Goa"), T("Pune")>>), List(<<<<" ">>, T("Pune")>>)}

\* the configs extract_form_data is called with: at most MaxConfigKeys keys
FormConfigs ==
    {[k \in ConfigKeys |-> IF k \in DOMAIN f THEN f[k] ELSE Absent] :
        f \in UNION {[K -> FormValues] :
                        K \in {K \in SUBSET ConfigKeys : Cardinality(K) <= MaxConfigKeys}}}

\* the configs collect_keywords is run with
OrchConfigs ==
    {Config(Absent, Absent, Absent),
     Config(Str(<<>>), Absent, Absent),
     Config(Str(T("example.com")), Absent, Absent),
     Config(Str(T("example.com")), Str(T("software")), Str(<<"Pune", " ">>)),
     Config(Str(T("example.com")), Absent, List(<<T("Pune"), T("Delhi")>>))}

(***************************************************************************)
(* Pages.                                                                  *)
(***************************************************************************)
\* the rows a page is drawn from: a row is its cells' inner texts
HeaderRow == <<T("Keyword"), T("Monthly Volume")>>
RowSet ==
    {HeaderRow,
     <<T("running shoes"), T("1000")>>,
     <<T("-"), T("-")>>,
     <<T("trail shoes"), <<>>>>,
     <<T("KEYWORD"), T("1000")>>,
     <<T("Keyword Ideas"), T("1000")>>,
     <<T("k"), T("1000")>>,
     <<T("shoes")>>,
     <<<<" ", "shoes", " ">>, T("N/A"), T("1000"), T("-")>>,
     <<<<" ">>, <<" ">>>>,
     <<T("Query")>>,
     <<>>}

\* the mark that ends a table in a flat page
TableBreak == <<T("</table>")>>

RECURSIVE SplitTables(_, _)
\* the tables of a flat page, `cur` being the table under construction
SplitTables(flat, cur) ==
    IF flat = <<>> THEN <<cur>>
    ELSE IF Head(flat) = TableBreak THEN <<cur>> \o SplitTables(Tail(flat), <<>>)
    ELSE SplitTables(Tail(flat), Append(cur, Head(flat)))

\* the sequences over S of length at most n
SeqsUpTo(S, n) == UNION {[1..k -> S] : k \in 0..n}

\* the table of the specification's extraction example
ExamplePage ==
    << <<HeaderRow, <<T("running shoes"), T("1000")>>, <<T("-"), T("-")>>,
         <<T("trail shoes"), <<>>>> >> >>

\* the pages the extractor is run on
ExtractPages ==
    {<<>>, ExamplePage}
        \cup {SplitTables(flat, <<>>) : flat \in SeqsUpTo(RowSet \cup {TableBreak}, MaxPageLen)}

\* the results pages collect_keywords meets
OrchPages ==
    {<<>>, ExamplePage, << <<HeaderRow, <<T("-"), T("-")>> >> >>,
     << <<HeaderRow, <<T("running shoes"), T("1000")>> >>,
        <<HeaderRow, <<T("trail shoes"), <<>>>> >> >>}

(***************************************************************************)
(* collect_keywords.                                                       *)
(***************************************************************************)
\* max_wait_time, in ms
MaxWaitTime == 120000
\* the pause of the poll loop, in ms
PollInterval == 3000

\* what one evaluation of the loading indicators may take, in ms
PollCosts == {k * 1000 : k \in 0..MaxPollCost}

close_selectors ==
    <<"button[aria-label*=close]", "button[aria-label*=Close]", ".close",
      "[data-testid*=close]", "button:has-text(x)", "button:has-text(Close)",
      "button:has-text(No thanks)", "button:has-text(Skip)", "button:has-text(Later)">>

\* results_selectors, each with the value of "'table' in selector"
results_selectors ==
    <<[sel |-> "table tbody tr", has_table |-> TRUE],
      [sel |-> "table tr td", has_table |-> TRUE],
      [sel |-> "[data-testid*=results]", has_table |-> FALSE],
      [sel |-> ".results", has_table |-> FALSE],
      [sel |-> "[class*=result]", has_table |-> FALSE],
      [sel |-> "[class*=keyword]", has_table |-> FALSE],
      [sel |-> ".MuiTable-root", has_table |-> FALSE],
      [sel |-> ".MuiDataGrid-root", has_table |-> FALSE],
      [sel |-> "[role=grid]", has_table |-> FALSE],
      [sel |-> "[role=table]", has_table |-> TRUE]>>

\* fieldnames of the csv.DictWriter
CsvHeader == <<"keyword", "monthly_volume", "cpc", "competition">>

NoFile == [written |-> FALSE, header |-> <<>>, rows |-> <<>>]
NoForm == [website |-> <<>>, industry |-> <<>>, location |-> <<>>]
NoResults ==
    [success |-> "none", industry_success |-> "none",
     location_success |-> "none", continue_success |-> "none"]

\* the helper has returned: its frame is gone
Idle ==
    /\ fn' = "none" /\ fpc' = "idle" /\ arg' = <<>> /\ vis' = {}
    /\ optVis' = {} /\ idx' = 1 /\ elem' = 0 /\ ret' = "none" /\ trace' = <<>>

\* the step begins
Begin(phase) == phases' = Append(phases, phase)

\* the exception raised at `site`; `context` is the site of the exception
\* that was being handled when it was raised
Exc(site, msg, context) == [site |-> site, msg |-> msg, context |-> context]

\* an exception raised inside the try block: on to the except clause
Raise(site, msg) == exc' = Exc(site, msg, "none") /\ pc' = "except"

\* the number of page operations of the trace that raised
Raised(tr) == Cardinality({i \in 1..Len(tr) : ~ tr[i].ok})

\* a mutant of CkStart: the website is not looked at before the launch
CkStartUnchecked ==
    /\ pc = "start"
    /\ Begin("config")
    /\ pc' = "launch" /\ UNCHANGED <<exc, outcome>>
    /\ UNCHANGED <<config, form_data, results, browser, csv, elapsed, pageVars, helperVars>>

\* lines 257-272: the website of the config, or the run raises at once
CkStart ==
    /\ pc = "start"
    /\ Begin("config")
    /\ IF ValTruthy(config["brand_website"])
       THEN pc' = "launch" /\ UNCHANGED <<exc, outcome>>
       ELSE /\ pc' = "end" /\ outcome' = "raised"
            /\ exc' = Exc("config", "No brand_website found in config file", "none")
    /\ UNCHANGED <<config, form_data, results, browser, csv, elapsed, pageVars, helperVars>>

\* sync_playwright() is entered and the browser launched
CkLaunch ==
    /\ pc = "launch"
    /\ Begin("launch")
    /\ \E ok \in BOOLEAN :
         IF ok THEN pc' = "new_context" /\ browser' = "open" /\ UNCHANGED <<exc, outcome>>
         ELSE /\ pc' = "end" /\ outcome' = "raised" /\ browser' = browser
              /\ exc' = Exc("launch", "launch failed", "none")
    /\ UNCHANGED <<config, form_data, results, csv, elapsed, pageVars, helperVars>>

\* browser.new_context() and context.new_page(), before the try block: an
\* exception leaves through the with statement alone
CkNewContext ==
    /\ pc = "new_context"
    /\ Begin("new_context")
    /\ \E ok \in BOOLEAN :
         IF ok THEN pc' = "goto" /\ exc' = exc
         ELSE pc' = "with_exit" /\ exc' = Exc("new_context", "page error", "none")
    /\ UNCHANGED <<config, form_data, results, browser, outcome, csv, elapsed,
                   pageVars, helperVars>>

\* a statement of the try block that is one page operation: it begins step
\* `phase`, and goes to `next` or raises
PageStep(at, phase, next) ==
    /\ pc = at
    /\ Begin(phase)
    /\ \E ok \in BOOLEAN : IF ok THEN pc' = next /\ exc' = exc ELSE Raise(phase, "page error")
    /\ UNCHANGED <<config, form_data, results, browser, outcome, csv, elapsed,
                   pageVars, helperVars>>

CkGoto == PageStep("goto", "navigate", "load_state")
CkLoadState == PageStep("load_state", "wait_for_load_state", "snap_loaded")
CkSnapLoaded == PageStep("snap_loaded", "screenshot step1_loaded", "overlay")

\* lines 307-321: the overlay dismissal begins
CkOverlayBegin ==
    /\ pc = "overlay"
    /\ Begin("overlay")
    /\ pc' = "overlay_loop" /\ idx' = 1 /\ trace' = <<>>
    /\ UNCHANGED <<config, form_data, results, browser, exc, outcome, csv, elapsed,
                   pageVars, fn, fpc, arg, vis, optVis, elem, ret>>

\* one pass of "for close_selector in close_selectors": the button is absent
\* or hidden; or the query raises; or it is clicked and the loop ends; or the
\* click or the pause after it raises, and the bare except goes on
CkOverlayStep ==
    /\ pc = "overlay_loop"
    /\ \E o \in {"absent", "query_raise", "clicked", "click_raise", "pause_raise"} :
         LET sel == close_selectors[idx] IN
         /\ o \in {"query_raise", "click_raise", "pause_raise"}
                => Raised(trace) < MaxOverlayRaises
         /\ trace' =
               CASE o = "absent" -> trace
                 [] o = "query_raise" -> Append(trace, Op("query_selector", sel, FALSE))
                 [] o = "clicked" ->
                       trace \o <<Op("click", sel, TRUE), Op("wait_for_timeout", "1000", TRUE)>>
                 [] o = "click_raise" -> Append(trace, Op("click", sel, FALSE))
                 [] OTHER ->
                       trace \o <<Op("click", sel, TRUE), Op("wait_for_timeout", "1000", FALSE)>>
         /\ IF o = "clicked" \/ idx = Len(close_selectors)
            THEN pc' = "overlay_escape" /\ idx' = idx
            ELSE pc' = pc /\ idx' = idx + 1
    /\ UNCHANGED <<config, form_data, results, browser, exc, outcome, csv, phases,
                   elapsed, pageVars, fn, fpc, arg, vis, optVis, elem, ret>>

\* lines 334-339: press Escape and pause; whatever raises is swallowed
CkOverlayEscape ==
    /\ pc = "overlay_escape"
    /\ \E o \in {"ok", "press_raise", "pause_raise"} :
         trace' =
            CASE o = "press_raise" -> Append(trace, Op("press", "Escape", FALSE))
              [] o = "pause_raise" ->
                    trace \o <<Op("press", "Escape", TRUE), Op("wait_for_timeout", "1000", FALSE)>>
              [] OTHER ->
                    trace \o <<Op("press", "Escape", TRUE), Op("wait_for_timeout", "1000", TRUE)>>
    /\ pc' = "snap_after_popup"
    /\ UNCHANGED <<config, form_data, results, browser, exc, outcome, csv, phases,
                   elapsed, pageVars, fn, fpc, arg, vis, optVis, idx, elem, ret>>

CkSnapAfterPopup == PageStep("snap_after_popup", "screenshot step1_after_popup", "call_website")

\* collect_keywords calls helper f with value a and waits at `at`
CallStep(from, at, f, a) ==
    /\ pc = from
    /\ Begin(f)
    /\ pc' = at
    /\ \E visible \in SUBSET (1..Len(ControlSelectors(f))) : Call(f, a, visible)
    /\ UNCHANGED <<config, form_data, results, browser, exc, outcome, csv, elapsed,
                   pageVars>>

\* line 346
CkCallWebsite ==
    CallStep("call_website", "in_website", "fill_website_field",
             config["brand_website"].v[1])

\* a mutant of CkAfterWebsite: a failed website fill is only logged
CkAfterWebsiteGoesOn ==
    /\ pc = "in_website" /\ fn = "fill_website_field" /\ fpc = "done"
    /\ results' = [results EXCEPT !.success = ret]
    /\ pc' = "snap_website" /\ exc' = exc
    /\ Idle
    /\ UNCHANGED <<config, form_data, browser, outcome, csv, phases, elapsed,
                   pageVars>>

\* lines 347-352: success = fill_website_field(...); False aborts the run
CkAfterWebsite ==
    /\ pc = "in_website" /\ fn = "fill_website_field" /\ fpc = "done"
    /\ results' = [results EXCEPT !.success = ret]
    /\ IF ret = "True" THEN pc' = "snap_website" /\ exc' = exc
       ELSE Raise("fill_website_field", "Failed to fill website field")
    /\ Idle
    /\ UNCHANGED <<config, form_data, browser, outcome, csv, phases, elapsed,
                   pageVars>>

CkSnapWebsite == PageStep("snap_website", "screenshot step2_website_filled", "get_llm")

\* line 355: get_llm() raises when GROQ_API_KEY is not set or the client
\* cannot be made
CkGetLlm ==
    /\ pc = "get_llm"
    /\ Begin("get_llm")
    /\ \E ok \in BOOLEAN :
         IF ok THEN pc' = "extract_form_data" /\ exc' = exc /\ llm' \in LlmAnswers
         ELSE Raise("get_llm", "GROQ_API_KEY environment variable not set") /\ llm' = llm
    /\ UNCHANGED <<config, form_data, results, browser, outcome, csv, elapsed,
                   page, keywords, helperVars>>

\* line 356; the client is not used after this call
CkExtractFormData ==
    /\ pc = "extract_form_data"
    /\ Begin("extract_form_data")
    /\ form_data' = extract_form_data(config, llm)
    /\ llm' = NoLlm
    /\ pc' = "industry"
    /\ UNCHANGED <<config, results, browser, exc, outcome, csv, elapsed,
                   page, keywords, helperVars>>

\* lines 360-361: the industry fill, unless the form data's industry is
\* empty or the default
CkIndustry ==
    IF Truthy(form_data.industry) /\ form_data.industry # T("All Industries")
    THEN CallStep("industry", "in_industry", "fill_industry_dropdown", form_data.industry)
    ELSE /\ pc = "industry" /\ pc' = "location"
         /\ UNCHANGED <<config, form_data, results, browser, exc, outcome, csv, phases,
                        elapsed, pageVars, helperVars>>

\* lines 361-363: industry_success is only logged
CkAfterIndustry ==
    /\ pc = "in_industry" /\ fn = "fill_industry_dropdown" /\ fpc = "done"
    /\ results' = [results EXCEPT !.industry_success = ret]
    /\ pc' = "location" /\ exc' = exc
    /\ Idle
    /\ UNCHANGED <<config, form_data, browser, outcome, csv, phases, elapsed,
                   pageVars>>

\* lines 366-367: the location fill, when the form data has a location
CkLocation ==
    /\ Truthy(form_data.location)
    /\ CallStep("location", "in_location", "fill_location_autocomplete",
                form_data.location)

\* line 366, no location: nothing to fill
CkNoLocation ==
    /\ pc = "location" /\ ~ Truthy(form_data.location)
    /\ pc' = "snap_filled"
    /\ UNCHANGED <<config, form_data, results, browser, exc, outcome, csv, phases,
                   elapsed, pageVars, helperVars>>

\* lines 367-369: location_success is only logged
CkAfterLocation ==
    /\ pc = "in_location" /\ fn = "fill_location_autocomplete" /\ fpc = "done"
    /\ results' = [results EXCEPT !.location_success = ret]
    /\ pc' = "snap_filled"
    /\ Idle
    /\ UNCHANGED <<config, form_data, browser, exc, outcome, csv, phases, elapsed,
                   pageVars>>

CkSnapFilled == PageStep("snap_filled", "screenshot step2_filled", "call_continue")

\* line 375
CkCallContinue == CallStep("call_continue", "in_continue", "click_continue_button", <<>>)

\* a mutant of CkAfterContinue: a failed submission does not abort the run
CkAfterContinueGoesOn ==
    /\ pc = "in_continue" /\ fn = "click_continue_button" /\ fpc = "done"
    /\ results' = [results EXCEPT !.continue_success = ret]
    /\ pc' = "initial_wait" /\ exc' = exc
    /\ Idle
    /\ UNCHANGED <<config, form_data, browser, outcome, csv, phases, elapsed,
                   pageVars>>

\* lines 375-377: continue_success = click_continue_button(page); False
\* aborts the run
CkAfterContinue ==
    /\ pc = "in_continue" /\ fn = "click_continue_button" /\ fpc = "done"
    /\ results' = [results EXCEPT !.continue_success = ret]
    /\ IF ret = "True" THEN pc' = "initial_wait" /\ exc' = exc
       ELSE Raise("click_continue_button", "Failed to click Continue button")
    /\ Idle
    /\ UNCHANGED <<config, form_data, browser, outcome, csv, phases, elapsed,
                   pageVars>>

\* line 381: page.wait_for_timeout(10000)
CkInitialWait == PageStep("initial_wait", "initial wait", "snap_after_continue")
CkSnapAfterContinue ==
    PageStep("snap_after_continue", "screenshot step3_after_continue", "waiter_start")

(***************************************************************************)
(* The completion waiter: the poll loop of collect_keywords.               *)
(***************************************************************************)
\* lines 401-402: start_time is read
CkWaiterStart ==
    /\ pc = "waiter_start"
    /\ Begin("completion wait")
    /\ elapsed' = 0 /\ pc' = "waiter_check"
    /\ UNCHANGED <<config, form_data, results, browser, exc, outcome, csv,
                   pageVars, helperVars>>

\* a mutant of WaiterCheck: passing the ceiling is an error
WaiterCheckRaises ==
    /\ pc = "waiter_check"
    /\ IF elapsed > MaxWaitTime
       THEN /\ phases' = Append(phases, "maximum wait time exceeded")
            /\ Raise("completion wait", "timeout")
       ELSE phases' = phases /\ pc' = "waiter_poll" /\ exc' = exc
    /\ UNCHANGED <<config, form_data, results, browser, outcome, csv,
                   elapsed, pageVars, helperVars>>

\* lines 405-408: the top of the loop reads the clock and tests the ceiling;
\* past it, "Maximum wait time exceeded" is printed and the loop is left
WaiterCheck ==
    /\ pc = "waiter_check"
    /\ IF elapsed > MaxWaitTime
       THEN /\ phases' = Append(phases, "maximum wait time exceeded")
            /\ pc' = "settle" /\ exc' = exc
       ELSE phases' = phases /\ pc' = "waiter_poll" /\ exc' = exc
    /\ UNCHANGED <<config, form_data, results, browser, outcome, csv,
                   elapsed, pageVars, helperVars>>

\* lines 410-428: the loading indicators are evaluated, which takes time;
\* none visible ends the loop
WaiterPoll ==
    /\ pc = "waiter_poll"
    /\ \E cost \in PollCosts, loading_visible \in BOOLEAN :
         /\ elapsed' = elapsed + cost
         /\ pc' = IF loading_visible THEN "waiter_sleep" ELSE "settle"
    /\ UNCHANGED <<config, form_data, results, browser, exc, outcome, csv, phases,
                   pageVars, helperVars>>

\* line 431: page.wait_for_timeout(3000), then the top of the loop again
WaiterSleep ==
    /\ pc = "waiter_sleep"
    /\ \E ok \in BOOLEAN :
         IF ok THEN pc' = "waiter_check" /\ exc' = exc /\ elapsed' = elapsed + PollInterval
         ELSE Raise("completion wait", "page error") /\ elapsed' = 0
    /\ UNCHANGED <<config, form_data, results, browser, outcome, csv, phases,
                   pageVars, helperVars>>

\* line 434: the settle delay; the loop's clock readings are dead
CkSettle ==
    /\ pc = "settle"
    /\ Begin("settle delay")
    /\ \E ok \in BOOLEAN :
         IF ok THEN pc' = "snap_results" /\ exc' = exc
         ELSE Raise("settle delay", "page error")
    /\ elapsed' = 0
    /\ UNCHANGED <<config, form_data, results, browser, outcome, csv,
                   pageVars, helperVars>>
CkSnapResults == PageStep("snap_results", "screenshot step4_results", "find_results")

\* a mutant of CkFindResults: an exception inside the extractor reaches
\* collect_keywords
CkFindResultsRaises ==
    /\ pc = "find_results"
    /\ Begin("extraction")
    /\ \E shown \in OrchPages, first \in 0..Len(results_selectors) :
         /\ (shown = <<>> /\ first > 0) => ~ (first \in {1, 2})
         /\ page' = shown
         /\ IF first > 0 /\ results_selectors[first].has_table
            THEN \E f \in FailurePoints(shown) \cup {NoFailure(shown)} :
                    IF f = NoFailure(shown)
                    THEN /\ keywords' = extract_keywords_from_table(shown)
                         /\ pc' = "finally" /\ exc' = exc
                    ELSE keywords' = <<>> /\ Raise("extraction", "page error")
            ELSE /\ keywords' = <<>> /\ exc' = exc
                 /\ pc' = IF first = 0 THEN "snap_no_results" ELSE "finally"
    /\ UNCHANGED <<config, form_data, results, browser, outcome, csv, elapsed,
                   llm, helperVars>>

\* lines 454-470: the page shows `shown`; `first` is the first results
\* selector with elements (0: none; a query that raises is passed over like
\* one without elements); a selector under "table" needs a table on the
\* page, and has the extractor called, in which the operation at `f` may
\* raise
CkFindResults ==
    /\ pc = "find_results"
    /\ Begin("extraction")
    /\ \E shown \in OrchPages, first \in 0..Len(results_selectors) :
         /\ (shown = <<>> /\ first > 0) => ~ (first \in {1, 2})
         /\ page' = shown
         /\ IF first > 0 /\ results_selectors[first].has_table
            THEN \E f \in FailurePoints(shown) \cup {NoFailure(shown)} :
                    /\ keywords' = extract_keywords_interrupted(shown, f)
                    /\ pc' = "finally" /\ exc' = exc
            ELSE /\ keywords' = <<>> /\ exc' = exc
                 /\ pc' = IF first = 0 THEN "snap_no_results" ELSE "finally"
    /\ UNCHANGED <<config, form_data, results, browser, outcome, csv, elapsed,
                   llm, helperVars>>

\* lines 472-477
CkSnapNoResults == PageStep("snap_no_results", "screenshot no_results_found", "finally")

\* lines 479-482: the error snapshot, then the exception is raised again;
\* a snapshot that raises replaces it
CkExcept ==
    /\ pc = "except"
    /\ Begin("screenshot error_screenshot")
    /\ \E ok \in BOOLEAN :
         exc' = IF ok THEN exc
                ELSE Exc("screenshot error_screenshot", "page error", exc.site)
    /\ pc' = "finally"
    /\ UNCHANGED <<config, form_data, results, browser, outcome, csv, elapsed,
                   pageVars, helperVars>>

\* lines 483-484: browser.close()
CkFinally ==
    /\ pc = "finally"
    /\ Begin("browser.close")
    /\ browser' = "closed" /\ pc' = "with_exit"
    /\ UNCHANGED <<config, form_data, results, exc, outcome, csv, elapsed,
                   pageVars, helperVars>>

\* a mutant of CkWithExit: leaving the with statement ends no browser
CkWithExitLeaks ==
    /\ pc = "with_exit"
    /\ IF exc = NoExc THEN pc' = "write_csv" /\ outcome' = outcome
       ELSE pc' = "end" /\ outcome' = "raised"
    /\ UNCHANGED <<config, form_data, results, browser, exc, csv, phases, elapsed,
                   pageVars, helperVars>>

\* a mutant of CkWithExit: the file is written before an exception leaves
CkWithExitWrites ==
    /\ pc = "with_exit"
    /\ browser' = IF browser = "open" THEN "closed" ELSE browser
    /\ IF exc = NoExc THEN pc' = "write_csv" /\ outcome' = outcome /\ csv' = csv
       ELSE /\ pc' = "end" /\ outcome' = "raised"
            /\ csv' = [written |-> TRUE, header |-> CsvHeader, rows |-> <<>>]
    /\ UNCHANGED <<config, form_data, results, exc, phases, elapsed,
                   pageVars, helperVars>>

\* line 274, the end of "with sync_playwright() as p": the driver is
\* stopped, which ends every browser it launched; an exception in flight
\* leaves collect_keywords
CkWithExit ==
    /\ pc = "with_exit"
    /\ browser' = IF browser = "open" THEN "closed" ELSE browser
    /\ IF exc = NoExc THEN pc' = "write_csv" /\ outcome' = outcome
       ELSE pc' = "end" /\ outcome' = "raised"
    /\ UNCHANGED <<config, form_data, results, exc, csv, phases, elapsed,
                   pageVars, helperVars>>

\* writer.writerows: the row of a record, its values in fieldnames order
CsvRow(kw) == [i \in 1..Len(CsvHeader) |-> kw[CsvHeader[i]]]

\* a mutant of CkWriteCsv: without records the file is created empty
CkWriteCsvBare ==
    /\ pc = "write_csv"
    /\ Begin("write_csv")
    /\ csv' = IF keywords # <<>>
              THEN [written |-> TRUE, header |-> CsvHeader,
                    rows |-> [i \in 1..Len(keywords) |-> CsvRow(keywords[i])]]
              ELSE [written |-> TRUE, header |-> <<>>, rows |-> <<>>]
    /\ pc' = "end" /\ outcome' = "returned"
    /\ UNCHANGED <<config, form_data, results, browser, exc, elapsed,
                   pageVars, helperVars>>

\* lines 486-505: with records, the header and one row per record; without,
\* the header alone
CkWriteCsv ==
    /\ pc = "write_csv"
    /\ Begin("write_csv")
    /\ csv' = IF keywords # <<>>
              THEN [written |-> TRUE, header |-> CsvHeader,
                    rows |-> [i \in 1..Len(keywords) |-> CsvRow(keywords[i])]]
              ELSE [written |-> TRUE, header |-> CsvHeader, rows |-> <<>>]
    /\ pc' = "end" /\ outcome' = "returned"
    /\ UNCHANGED <<config, form_data, results, browser, exc, elapsed,
                   pageVars, helperVars>>

\* the statements of collect_keywords
CollectStep ==
    \/ CkStart \/ CkLaunch \/ CkNewContext \/ CkGoto \/ CkLoadState \/ CkSnapLoaded
    \/ CkOverlayBegin \/ CkOverlayStep \/ CkOverlayEscape \/ CkSnapAfterPopup
    \/ CkCallWebsite \/ CkAfterWebsite \/ CkSnapWebsite \/ CkGetLlm
    \/ CkExtractFormData \/ CkIndustry \/ CkAfterIndustry
    \/ CkLocation \/ CkNoLocation \/ CkAfterLocation \/ CkSnapFilled
    \/ CkCallContinue \/ CkAfterContinue \/ CkInitialWait \/ CkSnapAfterContinue
    \/ CkWaiterStart \/ WaiterCheck \/ WaiterPoll \/ WaiterSleep
    \/ CkSettle \/ CkSnapResults \/ CkFindResults \/ CkSnapNoResults
    \/ CkExcept \/ CkFinally \/ CkWithExit \/ CkWriteCsv

(***************************************************************************)
(* The specifications.                                                     *)
(***************************************************************************)
HelperIdle ==
    /\ fn = "none" /\ fpc = "idle" /\ arg = <<>> /\ vis = {} /\ optVis = {}
    /\ idx = 1 /\ elem = 0 /\ ret = "none" /\ trace = <<>>

OrchIdle(at) ==
    /\ pc = at /\ form_data = NoForm /\ results = NoResults /\ browser = "none"
    /\ exc = NoExc /\ outcome = "running" /\ csv = NoFile /\ phases = <<>>
    /\ elapsed = 0 /\ keywords = <<>> /\ llm = NoLlm

\* a run of collect_keywords
Init ==
    /\ OrchIdle("start") /\ HelperIdle
    /\ config \in OrchConfigs
    /\ page = <<>>

Next == CollectStep \/ HelperStep

Spec == Init /\ [][Next]_vars

\* one call of a helper, with any value, on any page
InitFill ==
    /\ OrchIdle("harness") /\ HelperIdle
    /\ config = Config(Absent, Absent, Absent)
    /\ page = <<>>

NextFill == HarnessCall \/ HelperStep

SpecFill == InitFill /\ [][NextFill]_vars

\* a helper that was called runs its statements one after the other until
\* it returns: Python executes a call to its end
SpecFillFair == SpecFill /\ WF_vars(HelperStep)

\* extract_keywords_from_table(page) is called
ExtractCall ==
    /\ pc = "extract"
    /\ keywords' = extract_keywords_from_table(page)
    /\ pc' = "extracted"
    /\ UNCHANGED <<config, form_data, results, browser, exc, outcome, csv, phases,
                   elapsed, page, llm, helperVars>>

\* the extractor called on any page
InitExtract ==
    /\ OrchIdle("extract") /\ HelperIdle
    /\ config = Config(Absent, Absent, Absent)
    /\ page \in ExtractPages

\* the extractor is called once more on the unchanged page
ExtractAgain ==
    /\ pc = "extracted"
    /\ keywords' = extract_keywords_from_table(page)
    /\ pc' = "extracted_again"
    /\ UNCHANGED <<config, form_data, results, browser, exc, outcome, csv, phases,
                   elapsed, page, llm, helperVars>>

NextExtract == ExtractCall \/ ExtractAgain

SpecExtract == InitExtract /\ [][NextExtract]_vars

\* the raw industry texts map_industry_to_wordstream is called with
IndustryTexts == {<<>>, <<" ">>, T("software"), <<" ", "Technology">>}

\* extract_form_data(config, llm) is called
FormCall ==
    /\ pc = "form"
    /\ \E client \in LlmAnswers :
         /\ llm' = client
         /\ form_data' = extract_form_data(config, client)
    /\ pc' = "formed"
    /\ UNCHANGED <<config, results, browser, exc, outcome, csv, phases, elapsed,
                   page, keywords, helperVars>>

\* map_industry_to_wordstream(industry, client) is called; arg holds industry
MapCall ==
    /\ pc = "form"
    /\ \E industry \in IndustryTexts, client \in LlmAnswers :
         /\ arg' = industry /\ llm' = client
         /\ form_data' = [form_data EXCEPT
                             !.industry = map_industry_to_wordstream(industry, client)]
    /\ pc' = "mapped"
    /\ UNCHANGED <<config, results, browser, exc, outcome, csv, phases, elapsed,
                   page, keywords, fn, fpc, vis, optVis, idx, elem, ret, trace>>

\* the functions of llm_agent.py called on their own, with any config
InitForm ==
    /\ OrchIdle("form") /\ HelperIdle
    /\ config \in FormConfigs
    /\ page = <<>>

NextForm == FormCall \/ MapCall

SpecForm == InitForm /\ [][NextForm]_vars

(***************************************************************************)
(* The poll loop of collect_keywords standing alone, with one tick of it   *)
(* taken pattern by pattern.  WaiterPoll above is the summary of a tick.   *)
(***************************************************************************)
\* lines 389-398
loading_selectors ==
    <<"[data-testid*=loading]", ".loading", "[class*=loading]", "[role=progressbar]",
      "text=Loading", "text=Please wait", "text=Analyzing", "text=Processing">>

\* what evaluating one pattern gives: no visible element, a visible element,
\* or an exception of query_selector_all or is_visible
IndicatorOutcomes == {"none", "visible", "raise"}

\* the evaluations `tr` are a whole tick: a pattern was visible (break, line
\* 422) or the list is exhausted
TickDone(tr) ==
    /\ tr # <<>>
    /\ \/ tr[Len(tr)].val = "visible"
       \/ Len(tr) = Len(loading_selectors)

\* the evaluations of the tick under way
ThisTick == IF TickDone(trace) THEN <<>> ELSE trace

\* a mutant of IndicatorStep: an exception of a pattern leaves the try block
IndicatorStepAborts ==
    /\ pc = "waiter_poll"
    /\ \E o \in IndicatorOutcomes, cost \in PollCosts :
         LET tick == Append(ThisTick,
                            Query("query_selector_all",
                                  loading_selectors[Len(ThisTick) + 1], o)) IN
         /\ o = "raise" => Raised(ThisTick) < MaxIndicatorRaises
         /\ trace' = tick
         /\ IF o = "raise"
            THEN Raise("completion wait", "indicator error") /\ elapsed' = elapsed
            ELSE IF TickDone(tick)
            THEN /\ elapsed' = elapsed + cost /\ exc' = exc
                 /\ pc' = IF o = "visible" THEN "waiter_sleep" ELSE "settle"
            ELSE elapsed' = elapsed /\ cost = 0 /\ pc' = pc /\ exc' = exc
    /\ UNCHANGED <<config, form_data, results, browser, outcome, csv, phases,
                   pageVars, fn, fpc, arg, vis, optVis, idx, elem, ret>>

\* lines 411-428: one pass of "for selector in loading_selectors": the
\* pattern is evaluated; a visible element sets loading_visible and breaks;
\* an exception is swallowed by the bare except and the loop goes on; after
\* the loop, loading_visible decides between the wait and leaving
IndicatorStep ==
    /\ pc = "waiter_poll"
    /\ \E o \in IndicatorOutcomes, cost \in PollCosts :
         LET tick == Append(ThisTick,
                            Query("query_selector_all",
                                  loading_selectors[Len(ThisTick) + 1], o)) IN
         /\ o = "raise" => Raised(ThisTick) < MaxIndicatorRaises
         /\ trace' = tick
         /\ IF TickDone(tick)
            THEN /\ elapsed' = elapsed + cost
                 /\ pc' = IF o = "visible" THEN "waiter_sleep" ELSE "settle"
            ELSE elapsed' = elapsed /\ cost = 0 /\ pc' = pc
    /\ UNCHANGED <<config, form_data, results, browser, exc, outcome, csv, phases,
                   pageVars, fn, fpc, arg, vis, optVis, idx, elem, ret>>

InitWait ==
    /\ OrchIdle("waiter_start") /\ HelperIdle
    /\ config = Config(Absent, Absent, Absent)
    /\ page = <<>>

NextWait == CkWaiterStart \/ WaiterCheck \/ IndicatorStep \/ WaiterSleep

SpecWait == InitWait /\ [][NextWait]_vars

(***************************************************************************)
(* The claims.                                                             *)
(***************************************************************************)
\* the three field fillers
Fillers ==
    {"fill_website_field", "fill_industry_dropdown", "fill_location_autocomplete"}

\* the site of the first exception of the run
RootCause == IF exc.context # "none" THEN exc.context ELSE exc.site

\* phase is among the steps the run has begun
Begun(phase) == \E i \in 1..Len(phases) : phases[i] = phase

\* C1: the poll loop never begins a further 3000 ms wait once the time
\* elapsed since start_time is past the 120000 ms ceiling
C1_NeverWaitsPastCeiling == pc = "waiter_sleep" => elapsed <= MaxWaitTime

\* C2: after the candidate loop of a filler the element is the first visible
\* candidate in list order and no candidate after it was waited for; with
\* none visible every candidate was waited for, nothing is resolved, and the
\* filler returns False having done nothing else; with one visible the
\* filler goes on to click it
C2_FirstVisibleCandidate ==
    LET sels == ControlSelectors(fn)
        last == IF elem = 0 THEN Len(sels) ELSE elem
    IN  /\ (fn \in Fillers /\ fpc = "resolved") =>
              /\ (elem = 0) <=> (vis = {})
              /\ elem # 0 => elem \in vis /\ \A j \in vis : elem <= j
              /\ trace = [i \in 1..last |-> Op("wait_for_selector", sels[i], i = elem)]
        /\ (fn \in Fillers /\ fpc = "done" /\ trace # <<>>) =>
              IF elem = 0
              THEN /\ ret = "False"
                   /\ Len(trace) = Len(sels)
                   /\ \A i \in 1..Len(trace) : trace[i].op = "wait_for_selector"
              ELSE /\ Len(trace) > elem
                   /\ trace[elem + 1].op = "click"

\* C2's case: the third location candidate is visible, and so is the fifth
C2_Witness ==
    /\ fn = "fill_location_autocomplete" /\ fpc = "resolved"
    /\ vis = {3, 5} /\ elem = 3

\* C3: once fill_website_field has returned False the run is aborting, and
\* it has begun none of the form-data derivation, the industry and location
\* fills, the submission, the completion wait and the extraction
C3_WebsiteFailureAbortsFirst ==
    results.success = "False" =>
        /\ pc \in {"except", "finally", "with_exit", "end"}
        /\ pc = "end" => outcome = "raised"
        /\ \A phase \in {"get_llm", "extract_form_data", "fill_industry_dropdown",
                         "fill_location_autocomplete", "click_continue_button",
                         "completion wait", "extraction"} : ~ Begun(phase)

\* C3's case: the website fill failed and the run has raised
C3_Witness ==
    /\ results.success = "False" /\ pc = "end" /\ outcome = "raised"
    /\ exc.msg = "Failed to fill website field"

C5_FileIffReturned ==
    /\ pc = "end" => outcome \in {"returned", "raised"}
    /\ outcome = "returned" => csv.written /\ csv.header = CsvHeader
    /\ outcome = "raised" => ~ csv.written
    /\ csv.written => outcome = "returned"

\* C5's case: the run raised after the submission, and wrote nothing
C5_Witness ==
    /\ outcome = "raised" /\ results.continue_success = "True" /\ ~ csv.written

\* C6: a run that has derived its form data goes on to click_continue_button
\* whatever the industry and location fills return, and a run whose website
\* fill returned False raises
C6_OptionalFillsNeverAbort ==
    /\ (pc = "end" /\ Begun("extract_form_data")) => Begun("click_continue_button")
    /\ (pc = "end" /\ results.success = "False") => outcome = "raised"

\* C7: a run that launched the browser raises only when the navigation, the
\* load-state wait, the website fill or the submission failed (the page's
\* creation counted with the navigation)
C7_OnlyRequiredPhasesRaise ==
    (outcome = "raised" /\ browser # "none") =>
        RootCause \in {"new_context", "navigate", "wait_for_load_state",
                       "fill_website_field", "click_continue_button"}

\* the first record of the specification's extraction example
ExampleFirst ==
    [keyword |-> T("running shoes"), monthly_volume |-> T("1000"),
     cpc |-> T("N/A"), competition |-> T("N/A")]

\* C8, as claimed: the example table yields "running shoes" and then
\* "trail shoes" with monthly_volume "N/A"
C8_ExampleAsClaimed ==
    (pc = "extracted" /\ page = ExamplePage) =>
        keywords = <<ExampleFirst,
                     [keyword |-> T("trail shoes"), monthly_volume |-> T("N/A"),
                      cpc |-> T("N/A"), competition |-> T("N/A")]>>

\* C8, amended: the example table yields "running shoes" and then "trail
\* shoes" with the empty text of its second cell as monthly_volume; the
\* header row and the placeholder row yield nothing
C8_ExampleRecords ==
    (pc = "extracted" /\ page = ExamplePage) =>
        keywords = <<ExampleFirst,
                     [keyword |-> T("trail shoes"), monthly_volume |-> <<>>,
                      cpc |-> T("N/A"), competition |-> T("N/A")]>>

\* C8's case: the example table has been extracted
C8_Witness == pc = "extracted" /\ page = ExamplePage /\ Len(keywords) = 2

\* C9: the keyword of every record returned is not empty, is trimmed, is
\* longer than one character and is, in lower case, no header token
C9_KeywordsMeaningful ==
    pc = "extracted" =>
        \A i \in 1..Len(keywords) :
            LET keyword == keywords[i].keyword IN
            /\ keyword # <<>>
            /\ Strip(keyword) = keyword
            /\ TextLen(keyword) > 1
            /\ Lower(keyword) \notin HeaderTokens

\* C9's case: after the header come a row whose first cell is KEYWORD and a
\* row whose keyword has blanks around it; only the second is returned
C9_Witness ==
    /\ pc = "extracted"
    /\ page = << <<HeaderRow, <<T("KEYWORD"), T("1000")>>,
                   <<<<" ", "shoes", " ">>, T("N/A"), T("1000"), T("-")>> >> >>
    /\ Len(keywords) = 1 /\ keywords[1].keyword = T("shoes")

\* the calls that the fillers skip
SkippedCall ==
    \/ fn = "fill_industry_dropdown" /\ arg \in {<<>>, T("All Industries")}
    \/ fn = "fill_location_autocomplete" /\ arg = <<>>

\* C10: the industry filler given an empty value or "All Industries", and
\* the location filler given an empty value, do no page operation and
\* return True
C10_SkipWithoutInteraction ==
    SkippedCall =>
        /\ trace = <<>>
        /\ fpc \in {"entry", "done"}
        /\ fpc = "done" => ret = "True"

\* C10's case: the industry filler has returned for "All Industries" on a
\* page where its control is visible
C10_Witness ==
    /\ fn = "fill_industry_dropdown" /\ arg = T("All Industries")
    /\ fpc = "done" /\ ret = "True" /\ vis = {1}

\* the positions of the helper's trace at which the resolved control was
\* clicked
ControlClicks ==
    {i \in 1..Len(trace) : trace[i].op = "click" /\ trace[i].ok
                           /\ trace[i].on = "industry_dropdown"}

\* C11: when fill_industry_dropdown has clicked the dropdown open and
\* returns False, it has pressed Escape after that click
C11_EscapeAfterFailedOpen ==
    (fn = "fill_industry_dropdown" /\ fpc = "done" /\ ret = "False") =>
        \A i \in ControlClicks :
            \E j \in (i + 1)..Len(trace) :
                trace[j].op = "press" /\ trace[j].on = "Escape"

\* the suggestion candidates parameterized by the location text, and the
\* "any option" candidates
TextMatching == {1, 3, 5}
AnyOption == {2, 4, 6}

\* the suggestion candidates whose element the location filler has clicked
ClickedOptions ==
    {k \in 1..Len(autocomplete_selectors) :
        \E i \in 1..Len(trace) :
            trace[i] = Op("click", autocomplete_selectors[k], TRUE)}

\* C12: the location filler clicks an "any option" candidate only when no
\* text-matching candidate of its list is visible within its timeout
C12_PrefersTextMatch ==
    (fn = "fill_location_autocomplete" /\ ClickedOptions \cap AnyOption # {}) =>
        optVis \cap TextMatching = {}

\* the location filler has typed the location: the pause after the typing
\* is done
Typed ==
    /\ fn = "fill_location_autocomplete"
    /\ \E i \in 1..Len(trace) : trace[i] = Op("wait_for_timeout", "2000", TRUE)

\* the page operations at which a suggestion was clicked, raising or not
OptionClicks ==
    {i \in 1..Len(trace) :
        /\ trace[i].op = "click"
        /\ \E k \in 1..Len(autocomplete_selectors) :
               trace[i].on = autocomplete_selectors[k]}

\* C13: the location typed and every suggestion candidate timing out, the
\* location filler clicks no suggestion, presses Tab and returns True; it
\* returns False only when the Tab press of its own handler raises
C13_NoSuggestionConfirms ==
    (Typed /\ fpc = "done" /\ optVis = {}) =>
        /\ OptionClicks = {}
        /\ \E i \in 1..Len(trace) : trace[i].op = "press" /\ trace[i].on = "Tab"
        /\ \/ ret = "True"
           \/ /\ ret = "False"
              /\ trace[Len(trace)] = Op("press", "Tab", FALSE)
              /\ ~ trace[Len(trace) - 1].ok

\* C13's case: no suggestion appeared, Tab was pressed, True is returned
C13_Witness ==
    /\ Typed /\ fpc = "done" /\ optVis = {} /\ ret = "True"
    /\ trace[Len(trace) - 1] = Op("press", "Tab", TRUE)
    /\ \A k \in 1..Len(autocomplete_selectors) :
           \E i \in 1..Len(trace) :
               trace[i] = Op("wait_for_selector", autocomplete_selectors[k], FALSE)

\* C14: when the data-testid candidate of the Continue button does not
\* resolve and the visible-text candidate would, click_continue_button
\* waits for the visible-text candidate, clicks the button and, nothing
\* else failing, returns True
C14_TextCandidateTried ==
    (fn = "click_continue_button" /\ fpc = "done" /\ vis = {2}) =>
        /\ \E i \in 1..Len(trace) :
               trace[i] = Op("wait_for_selector", continue_selectors[2], TRUE)
        /\ (\A i \in 2..Len(trace) : trace[i].ok) => ret = "True"

\* the positions at which click_continue_button clicked the button, the
\* click raising or not
ContinueClicks ==
    {i \in 1..Len(trace) : trace[i].op = "click" /\ trace[i].on = "continue_button"}

\* the button reported visible and enabled before position i of the trace
ReportedReady(i) ==
    \E j, k \in 1..(i - 1) :
        /\ j < k
        /\ trace[j] = Query("is_visible", "continue_button", "True")
        /\ trace[k] = Query("is_enabled", "continue_button", "True")

\* some state query of the button reported False
ReportedNotReady ==
    \E j \in 1..Len(trace) :
        trace[j].op \in {"is_visible", "is_enabled"} /\ trace[j].val = "False"

\* C15: click_continue_button clicks the button only after it reported
\* visible and enabled; a button reporting not visible or not enabled is
\* never clicked and False is returned; a True return follows exactly one
\* click
C15_ClickOnlyWhenReady ==
    fn = "click_continue_button" =>
        /\ \A i \in ContinueClicks : ReportedReady(i)
        /\ ReportedNotReady => (ContinueClicks = {} /\ fpc = "done" /\ ret = "False")
        /\ ret = "True" =>
               /\ Cardinality(ContinueClicks) = 1
               /\ \A i \in ContinueClicks : trace[i].ok

\* C15's cases: a button that reported visible and not enabled was left
\* alone
C15_Witness ==
    /\ fn = "click_continue_button" /\ fpc = "done" /\ ret = "False"
    /\ trace[Len(trace)] = Query("is_enabled", "continue_button", "False")
    /\ ContinueClicks = {}

\* C16: whatever the page does, a helper that was called ends by returning
\* True or False
C16_HelpersReturn ==
    (fn \in Helpers) ~> (fpc = "done" /\ ret \in {"True", "False"})

\* C16's case: the Escape press of the industry filler's own handler raised
\* and the filler returned False
C16_Witness ==
    /\ fn = "fill_industry_dropdown" /\ fpc = "done" /\ ret = "False"
    /\ Len(trace) >= 2
    /\ trace[Len(trace)] = Op("press", "Escape", FALSE)
    /\ trace[Len(trace) - 1] = Op("press", "Escape", FALSE)

\* C17: when collect_keywords has returned, the output file is the header
\* keyword, monthly_volume, cpc, competition and then one row per extracted
\* record, in extraction order, of exactly those four fields
C17_FileIsHeaderAndRecords ==
    outcome = "returned" =>
        /\ csv.written
        /\ csv.header = <<"keyword", "monthly_volume", "cpc", "competition">>
        /\ Len(csv.rows) = Len(keywords)
        /\ \A i \in 1..Len(keywords) :
               csv.rows[i] = <<keywords[i].keyword, keywords[i].monthly_volume,
                               keywords[i].cpc, keywords[i].competition>>

\* C17's cases: a file of two rows in extraction order
C17_Witness ==
    /\ outcome = "returned" /\ Len(csv.rows) = 2
    /\ csv.rows[1][1] = T("running shoes") /\ csv.rows[2][1] = T("trail shoes")

\* C18: a run whose extraction has yielded no record returns, and its
\* output file is the header row alone
C18_ZeroRecordsStillReturns ==
    (pc = "end" /\ Begun("extraction") /\ keywords = <<>>) =>
        /\ outcome = "returned"
        /\ csv = [written |-> TRUE, header |-> CsvHeader, rows |-> <<>>]

\* the steps after the completion wait
AfterWait == {"settle delay", "screenshot step4_results", "screenshot no_results_found"}

\* C19: once the ceiling of the completion wait has passed, the loop is
\* left for the settle delay; the run then goes on to the extraction and
\* returns, and when it raises it is a page operation after the wait that
\* raised, never the timeout
C19_CeilingIsSoftSuccess ==
    Begun("maximum wait time exceeded") =>
        /\ pc = "settle" \/ Begun("settle delay")
        /\ (pc = "end" /\ exc = NoExc) =>
               (outcome = "returned" /\ Begun("extraction") /\ csv.written)
        /\ exc # NoExc => RootCause \in AfterWait

\* C19's case: the ceiling passed with a loading indicator still visible,
\* and the run extracted and returned
C19_Witness ==
    /\ Begun("maximum wait time exceeded") /\ Begun("extraction")
    /\ outcome = "returned"

\* the failures after which the run cannot go on
Unrecoverable ==
    {"navigate", "wait_for_load_state", "fill_website_field", "click_continue_button"}

\* the error snapshot was begun before the browser was closed
SnapshotBeforeClose ==
    \E i, j \in 1..Len(phases) :
        /\ i < j
        /\ phases[i] = "screenshot error_screenshot"
        /\ phases[j] = "browser.close"

\* C20: a run that raised after a navigation, website fill or submission
\* failure took the error snapshot, then closed the browser, and surfaces
\* the failure of that phase, with its description
C20_FailureSnappedClosedNamed ==
    (outcome = "raised" /\ RootCause \in Unrecoverable) =>
        /\ SnapshotBeforeClose /\ browser = "closed"
        /\ exc.site = RootCause
        /\ RootCause = "fill_website_field" => exc.msg = "Failed to fill website field"
        /\ RootCause = "click_continue_button" =>
               exc.msg = "Failed to click Continue button"

HoldsValue(key) ==
    \/ config[key].kind = "str" /\ config[key].v[1] # <<>>
    \/ config[key].kind = "list" /\ config[key].v # <<>>

\* the config holds a usable location under `key`: a list with a first
\* element, or a text that is not blank
HoldsLocation(key) ==
    \/ config[key].kind = "list" /\ Len(config[key].v) >= 1
    \/ config[key].kind = "str" /\ Strip(config[key].v[1]) # <<>>

\* the text the value under `key` contributes: a list its first element
Contribution(key) == config[key].v[1]

\* C22: the industry is mapped from the first industry key that holds a
\* non-empty value and the location is the trimmed contribution of the first
\* location key that holds a usable value; a later key is not used; without
\* such a key the industry is "Business Services" and the location is empty
C22_FirstUsableKeyWins ==
    pc = "formed" =>
        /\ \A i \in 1..Len(industry_keys) :
               (/\ HoldsValue(industry_keys[i])
                /\ \A j \in 1..(i - 1) : ~ HoldsValue(industry_keys[j]))
               => form_data.industry =
                      map_industry_to_wordstream(
                          IF config[industry_keys[i]].kind = "str"
                          THEN config[industry_keys[i]].v[1] ELSE T("str(list)"), llm)
        /\ (\A i \in 1..Len(industry_keys) : ~ HoldsValue(industry_keys[i]))
               => form_data.industry = T("Business Services")
        /\ \A i \in 1..Len(location_keys) :
               (/\ HoldsLocation(location_keys[i])
                /\ \A j \in 1..(i - 1) : ~ HoldsLocation(location_keys[j]))
               => form_data.location = Strip(Contribution(location_keys[i]))
        /\ (\A i \in 1..Len(location_keys) : ~ HoldsLocation(location_keys[i]))
               => form_data.location = <<>>

\* C22's case: two location keys hold usable values, a list and a text, and
\* the earlier one, the list, gave its first element
C22_Witness ==
    /\ pc = "formed"
    /\ config["locations"] = List(<<T("Goa"), T("Pune")>>)
    /\ config["city"] = Str(<<" ", "Delhi", " ">>)
    /\ form_data.location = T("Goa")

\* the call of the LLM fails, or its trimmed answer is no valid label
NoValidAnswer ==
    \/ llm.raises \/ llm.content = <<>>
    \/ Strip(llm.content) \notin valid_industries

\* C23: map_industry_to_wordstream returns a valid industry; it returns
\* "Business Services" when its input is empty or blank, when the LLM call
\* fails and when the answer is no valid label
C23_MapsIntoValidIndustries ==
    pc = "mapped" =>
        /\ form_data.industry \in valid_industries
        /\ (arg = <<>> \/ Strip(arg) = <<>> \/ NoValidAnswer)
               => form_data.industry = T("Business Services")

\* C23's case: the LLM answered with a text that is no valid label
C23_Witness ==
    /\ pc = "mapped" /\ arg = T("software")
    /\ ~ llm.raises /\ llm.content = T("Tech")
    /\ form_data.industry = T("Business Services")

\* row i of table t has cells and its first cell's text, in lower case,
\* contains a word of the header lexicon
HeaderAt(t, i) ==
    /\ Len(page[t][i]) > 0
    /\ \E word \in {"keyword", "search term", "phrase", "query"} :
           Contains(Lower(Strip(page[t][i][1])), word)

\* row i of table t yields a record: it is no header row, a header row came
\* earlier in its table, it has two cells or more, a cell that is neither
\* blank nor a placeholder, and a meaningful keyword
Qualifies(t, i) ==
    LET texts == CellTexts(page[t][i]) IN
    /\ Len(texts) >= 2
    /\ ~ HeaderAt(t, i)
    /\ \E j \in 1..(i - 1) : HeaderAt(t, j)
    /\ ~ IsEmptyRow(texts)
    /\ Meaningful(KeywordData(texts))

\* the rows of the page that yield a record, as <<table, row>>
QualifyingRows ==
    UNION {{<<t, i>> : i \in {i \in 1..Len(page[t]) : Qualifies(t, i)}} :
              t \in 1..Len(page)}

\* the place of a qualifying row in document order
DocumentRank(q) ==
    Cardinality({r \in QualifyingRows :
                    r[1] < q[1] \/ (r[1] = q[1] /\ r[2] <= q[2])})

PhaseOrder ==
    <<"navigate", "wait_for_load_state", "overlay", "fill_website_field",
      "get_llm", "extract_form_data", "fill_industry_dropdown",
      "fill_location_autocomplete", "click_continue_button", "completion wait",
      "settle delay", "extraction", "write_csv">>

\* the phases a run may pass over: the two optional fills
OptionalPhases == {"fill_industry_dropdown", "fill_location_autocomplete"}

\* the places of `phase` among the steps begun
PlacesOf(phase) == {i \in 1..Len(phases) : phases[i] = phase}

\* C25: a run that returned began every phase once, the optional fills at
\* most once, in the order of PhaseOrder; and whenever the extraction has
\* begun the submission returned True, and one settle delay lies between
\* the completion wait and the extraction
C25_PhasesInOrder ==
    /\ outcome = "returned" =>
          /\ \A a \in 1..Len(PhaseOrder) :
                /\ Cardinality(PlacesOf(PhaseOrder[a])) <= 1
                /\ PhaseOrder[a] \notin OptionalPhases => PlacesOf(PhaseOrder[a]) # {}
          /\ \A a, b \in 1..Len(PhaseOrder) :
                a < b => \A i \in PlacesOf(PhaseOrder[a]), j \in PlacesOf(PhaseOrder[b]) :
                             i < j
    /\ Begun("extraction") =>
          /\ results.continue_success = "True"
          /\ Cardinality(PlacesOf("settle delay")) = 1
          /\ \A w \in PlacesOf("completion wait"), s \in PlacesOf("settle delay"),
                e \in PlacesOf("extraction") : w < s /\ s < e
          /\ PlacesOf("completion wait") # {}

\* C25's case: a run with both optional fills returned
C25_Witness ==
    /\ outcome = "returned"
    /\ Begun("fill_industry_dropdown") /\ Begun("fill_location_autocomplete")
    /\ Begun("maximum wait time exceeded")

\* the clicks on a close button that went through during overlay dismissal
CloseClicks ==
    {i \in 1..Len(trace) : trace[i].op = "click" /\ trace[i].ok
                           /\ \E k \in 1..Len(close_selectors) :
                                 trace[i].on = close_selectors[k]}

\* the places of the trace where Escape was pressed
EscapePresses ==
    {i \in 1..Len(trace) : trace[i].op = "press" /\ trace[i].on = "Escape" /\ trace[i].ok}

\* C26: overlay dismissal never fails the run, which goes on to the website
\* fill; at most one close button is clicked; and when nothing raised in the
\* step, Escape was pressed after every click
C26_OverlayBestEffort ==
    /\ Begun("overlay") /\ outcome = "raised" => Begun("fill_website_field")
    /\ pc \in {"overlay_loop", "overlay_escape", "snap_after_popup"} =>
          Cardinality(CloseClicks) <= 1
    /\ pc = "snap_after_popup" /\ Raised(trace) = 0 =>
          /\ EscapePresses # {}
          /\ \A c \in CloseClicks, e \in EscapePresses : c < e

\* C27: when the poll loop is left, at most the ceiling plus one poll
\* interval has elapsed since start_time
C27_LoopTimeBounded == pc = "settle" => elapsed <= MaxWaitTime + PollInterval

\* the places of the tick's evaluations where a pattern raised
IndicatorFailures == {i \in 1..Len(trace) : trace[i].val = "raise"}

\* C28: in the poll loop a pattern that raises is passed over and the next
\* pattern is evaluated; a tick on which every pattern raised or had no
\* visible element leaves the loop; the loop goes on to the wait only after
\* a visible element; and no pattern's exception aborts the run
C28_IndicatorFailureIsNotVisible ==
    /\ \A i \in 1..Len(trace) :
          /\ trace[i].on = loading_selectors[i]
          /\ trace[i].val = "visible" => i = Len(trace)
    /\ \A i \in IndicatorFailures :
          \/ i < Len(trace)
          \/ i = Len(trace) /\ i < Len(loading_selectors) /\ pc = "waiter_poll"
          \/ i = Len(loading_selectors) /\ pc = "settle"
    /\ pc = "waiter_sleep" => trace # <<>> /\ trace[Len(trace)].val = "visible"
    /\ pc = "settle" /\ ~ Begun("maximum wait time exceeded") =>
          /\ Len(trace) = Len(loading_selectors)
          /\ \A i \in 1..Len(trace) : trace[i].val \in {"none", "raise"}
    /\ exc # NoExc => trace # <<>> /\ trace[Len(trace)].val = "visible"

\* C28's case: the loop was left on a tick on which the first pattern and
\* the last pattern raised and no pattern had a visible element
C28_Witness ==
    /\ pc = "settle" /\ ~ Begun("maximum wait time exceeded")
    /\ IndicatorFailures = {1, Len(loading_selectors)}
    /\ elapsed > PollInterval

\* C29: with no brand_website in the config, or an empty one, the run has
\* raised as soon as it has looked at the config: no browser was launched,
\* no page operation was made and no file was written
C29_NoWebsiteRaisesAtOnce ==
    ~ ValTruthy(config["brand_website"]) /\ pc # "start" =>
        /\ outcome = "raised" /\ pc = "end"
        /\ exc.site = "config"
        /\ phases = <<"config">>
        /\ browser = "none"
        /\ fn = "none" /\ trace = <<>>
        /\ csv = NoFile

\* C29's case: the run with an empty brand_website has raised
C29_Witness ==
    /\ config["brand_website"] = Str(<<>>)
    /\ outcome = "raised"

\* a is b's beginning
IsPrefix(a, b) == Len(a) <= Len(b) /\ SubSeq(b, 1, Len(a)) = a

\* C30: no exception leaves the extractor; the list it returned is a
\* beginning of the list a failure-free extraction of the page returns; and
\* the run whose extractor was called returns, with the rows of that list
\* in its file
C30_InterruptedExtractionIsPrefix ==
    /\ exc.site # "extraction"
    /\ Begun("extraction") => IsPrefix(keywords, extract_keywords_from_table(page))
    /\ (pc = "end" /\ Begun("extraction") /\ ~ Begun("screenshot no_results_found")) =>
          /\ outcome = "returned"
          /\ csv.rows = [i \in 1..Len(keywords) |-> CsvRow(keywords[i])]

\* C30's case: the extractor failed in the second table of a page, and the
\* run has written the record of the first table
C30_Witness ==
    /\ outcome = "returned"
    /\ Len(page) = 2 /\ Len(extract_keywords_from_table(page)) = 2
    /\ Len(keywords) = 1 /\ Len(csv.rows) = 1

=============================================================================
